---- MODULE Spec2Model ----
(***************************************************************************)
(* Intent detection (services/intent_detector.py) and task dispatch        *)
(* (services/task_executor.py) of the agentic multi-modal backend.         *)
(* Texts are TLA+ strings; substring search, lower(), strip() and the      *)
(* regular expressions are computed character by character.                *)
(***************************************************************************)
EXTENDS Integers, Sequences, FiniteSets, TLC

VARIABLES
    op,              \* the operation that ran last
    detector,        \* the IntentDetector instance: keyword table and patterns
    text, has_file,  \* arguments of detect / get_confidence
    intent,          \* value returned by detect
    confidence,      \* value returned by get_confidence
    executor,        \* the TaskExecutor instance: its client and model
    task_type, content, original_query,   \* arguments of execute
    outcome,         \* what the provider did with the call of this execute
    sent,            \* the provider calls made by this execute
    result,          \* what execute returned
    failed,          \* the task types of the executes that failed so far
    reqs,            \* the process_request calls: inputs, position and locals
    running          \* the request whose coroutine holds the event loop, 0 for none

detVars  == <<detector, text, has_file, intent, confidence>>

execVars == <<executor, task_type, content, original_query, outcome, sent,
              result, failed>>

pipeVars == <<reqs, running>>

vars == <<op, detector, text, has_file, intent, confidence, executor, task_type, content,
          original_query, outcome, sent, result, failed, reqs, running>>

(***************************************************************************)
(* Bounds and input domains                                                *)
(***************************************************************************)
MaxFrags == 3

\* Python's None (detect is written to accept it)
None == "<None>"

\* A TLA+ string cannot hold the backquote: "~" stands for it throughout
\* (like the backquote it is neither a word character nor white space).

\* no process_request call is being served
PipeIdle == reqs = << >> /\ running = 0

\* Pieces the input texts are concatenated from
Fragments ==
    { "YouTube", "def f(", "Explain", "summarize", "tone", "debug",
      "tasks", "find", " " }

RECURSIVE TextsOf(_)
TextsOf(n) ==
    IF n = 0 THEN {""}
    ELSE LET shorter == TextsOf(n - 1)
         IN  shorter \cup { t \o f : t \in shorter, f \in Fragments }

Texts == TextsOf(MaxFrags)

(***************************************************************************)
(* String primitives of Python used by the detector                        *)
(***************************************************************************)
Char(t, i) == SubSeq(t, i, i)

\* keyword in text
Contains(t, k) ==
    \E i \in 1..(Len(t) - Len(k) + 1) : SubSeq(t, i, i + Len(k) - 1) = k

\* str.startswith, str.endswith
StartsWith(str, head) == Len(str) >= Len(head) /\ SubSeq(str, 1, Len(head)) = head

EndsWith(str, tail) ==
    Len(str) >= Len(tail) /\ SubSeq(str, Len(str) - Len(tail) + 1, Len(str)) = tail

UpperChars == "ABCDEFGHIJKLMNOPQRSTUVWXYZ"
LowerChars == "abcdefghijklmnopqrstuvwxyz"
DigitChars == "0123456789"

IsSpace(c) == c \in {" ", "\t", "\n", "\r", "\f"}

IsWord(c)  == \/ Contains(UpperChars, c)
              \/ Contains(LowerChars, c)
              \/ Contains(DigitChars, c)
              \/ c = "_"

LowerChar(c) ==
    IF Contains(UpperChars, c)
    THEN Char(LowerChars, CHOOSE i \in 1..26 : Char(UpperChars, i) = c)
    ELSE c

\* str.lower()
RECURSIVE Lower(_)
Lower(t) ==
    IF Len(t) = 0 THEN ""
    ELSE LowerChar(Char(t, 1)) \o Lower(SubSeq(t, 2, Len(t)))

\* str.strip()
RECURSIVE LStrip(_)
LStrip(t) ==
    IF Len(t) > 0 /\ IsSpace(Char(t, 1)) THEN LStrip(SubSeq(t, 2, Len(t))) ELSE t

RECURSIVE RStrip(_)
RStrip(t) ==
    IF Len(t) > 0 /\ IsSpace(Char(t, Len(t))) THEN RStrip(SubSeq(t, 1, Len(t) - 1)) ELSE t

Strip(t) == RStrip(LStrip(t))

(***************************************************************************)
(* Regular expressions: a pattern is a sequence of elements, matched by    *)
(* propagating the set of offsets reached so far.                          *)
(***************************************************************************)
Lit(s)    == [kind |-> "lit",  s |-> s,  cls |-> ""]
Plus(cls) == [kind |-> "plus", s |-> "", cls |-> cls]
Star(cls) == [kind |-> "star", s |-> "", cls |-> cls]

\* one of several literals, as in (?:https?://)?
Alt(alts)   == [kind |-> "alt", alts |-> alts]
\* class{n}
Rep(cls, n) == [kind |-> "rep", cls |-> cls, n |-> n]

InClass(c, cls) ==
    CASE cls = "space"   -> IsSpace(c)
      [] cls = "word"    -> IsWord(c)
      [] cls = "wordDot" -> IsWord(c) \/ c = "."
      [] cls = "id"      -> IsWord(c) \/ c = "-"
      [] cls = "any"     -> TRUE

\* offsets reachable after element e from the offsets S
StepRe(t, e, S) ==
    CASE e.kind = "lit" ->
           { i + Len(e.s) : i \in { j \in S : /\ j + Len(e.s) <= Len(t)
                                              /\ SubSeq(t, j + 1, j + Len(e.s)) = e.s } }
      [] e.kind = "plus" ->
           { j \in 0..Len(t) : \E i \in S : /\ i < j
                                           /\ \A k \in (i + 1)..j : InClass(Char(t, k), e.cls) }
      [] e.kind = "star" ->
           { j \in 0..Len(t) : \E i \in S : /\ i <= j
                                           /\ \A k \in (i + 1)..j : InClass(Char(t, k), e.cls) }
      [] e.kind = "alt" ->
           UNION { { i + Len(a) : i \in { j \in S : /\ j + Len(a) <= Len(t)
                                                    /\ SubSeq(t, j + 1, j + Len(a)) = a } }
                   : a \in e.alts }
      [] e.kind = "rep" ->
           { i + e.n : i \in { j \in S : /\ j + e.n <= Len(t)
                                          /\ \A k \in (j + 1)..(j + e.n) :
                                                InClass(Char(t, k), e.cls) } }

RECURSIVE RunRe(_, _, _, _)
RunRe(t, pat, n, S) ==
    IF n > Len(pat) \/ S = {} THEN S
    ELSE RunRe(t, pat, n + 1, StepRe(t, pat[n], S))

\* pattern.search(text)
Search(pat, t) == RunRe(t, pat, 1, 0..Len(t)) # {}

(***************************************************************************)
(* IntentDetector                                                          *)
(***************************************************************************)
\* the intents of the class docstring
Intents ==
    { "summarization", "sentiment_analysis", "code_explanation", "action_items",
      "youtube_transcript", "needs_clarification", "conversational" }

\* mutant of IntentOrder: sentiment_analysis is declared before summarization
IntentOrder_sentimentFirst ==
    << "sentiment_analysis", "summarization", "code_explanation",
       "action_items", "youtube_transcript" >>

\* dict order of INTENT_KEYWORDS
IntentOrder ==
    << "summarization", "sentiment_analysis", "code_explanation",
       "action_items", "youtube_transcript" >>

\* mutant of INTENT_KEYWORDS: the short host is not a YouTube keyword
INTENT_KEYWORDS_noShortHost(i) ==
    CASE i = "summarization" ->
           << "summarize", "summary", "tldr", "brief", "overview",
              "recap", "gist", "key points", "main points", "condense" >>
      [] i = "sentiment_analysis" ->
           << "sentiment", "feeling", "emotion", "tone", "mood",
              "opinion", "attitude", "positive", "negative" >>
      [] i = "code_explanation" ->
           << "explain code", "what does this code", "code explanation",
              "how does this work", "analyze code", "review code",
              "debug", "find bugs", "what is this function" >>
      [] i = "action_items" ->
           << "action item", "action items", "todo", "to-do", "task",
              "tasks", "next steps", "follow up", "deliverable" >>
      [] i = "youtube_transcript" ->
           << "youtube.com", "youtube", "video transcript" >>
      [] OTHER -> << >>

INTENT_KEYWORDS(i) ==
    CASE i = "summarization" ->
           << "summarize", "summary", "tldr", "brief", "overview",
              "recap", "gist", "key points", "main points", "condense" >>
      [] i = "sentiment_analysis" ->
           << "sentiment", "feeling", "emotion", "tone", "mood",
              "opinion", "attitude", "positive", "negative" >>
      [] i = "code_explanation" ->
           << "explain code", "what does this code", "code explanation",
              "how does this work", "analyze code", "review code",
              "debug", "find bugs", "what is this function" >>
      [] i = "action_items" ->
           << "action item", "action items", "todo", "to-do", "task",
              "tasks", "next steps", "follow up", "deliverable" >>
      [] i = "youtube_transcript" ->
           << "youtube.com", "youtu.be", "youtube", "video transcript" >>
      [] OTHER -> << >>

CODE_PATTERNS ==
    << << Lit("def"), Plus("space"), Plus("word"), Star("space"), Lit("(") >>,
       << Lit("function"), Plus("space"), Plus("word"), Star("space"), Lit("(") >>,
       << Lit("class"), Plus("space"), Plus("word") >>,
       << Lit("import"), Plus("space"), Plus("wordDot") >>,
       << Lit("from"), Plus("space"), Plus("wordDot"), Plus("space"), Lit("import") >>,
       << Lit("const"), Plus("space"), Plus("word"), Star("space"), Lit("=") >>,
       << Lit("let"), Plus("space"), Plus("word"), Star("space"), Lit("=") >>,
       << Lit("var"), Plus("space"), Plus("word"), Star("space"), Lit("=") >>,
       << Lit("public"), Plus("space"), Plus("word") >>,
       << Lit("private"), Plus("space"), Plus("word") >>,
       << Lit("~~~"), Star("any"), Lit("~~~") >> >>

AnyOf(t, words) == \E n \in 1..Len(words) : Contains(t, words[n])

\* the class attribute INTENT_KEYWORDS as a dict (its items in order) and the
\* compiled_patterns that __init__ builds
NewDetector ==
    [INTENT_KEYWORDS   |-> [n \in 1..Len(IntentOrder) |->
                              [key |-> IntentOrder[n],
                               value |-> INTENT_KEYWORDS(IntentOrder[n])]],
     compiled_patterns |-> CODE_PATTERNS]

\* self.INTENT_KEYWORDS.get(intent, [])
KeywordsOf(det, i) ==
    LET items == SelectSeq(det.INTENT_KEYWORDS, LAMBDA it : it.key = i)
    IN  IF Len(items) > 0 THEN items[1].value ELSE << >>

_contains_keywords(t, i) == AnyOf(t, KeywordsOf(detector, i))

_contains_code(t) ==
    \E n \in 1..Len(detector.compiled_patterns) :
        Search(detector.compiled_patterns[n], t)

explanation_words ==
    << "explain", "what does", "how does", "what is",
       "analyze", "review", "understand", "clarify" >>

_contains_explanation_request(t) == AnyOf(t, explanation_words)

action_verbs ==
    << "summarize", "explain", "analyze", "extract",
       "find", "list", "show", "tell", "give",
       "identify", "detect", "calculate", "convert" >>

\* mutant of _has_clear_instruction: the length test is left out
_has_clear_instruction_noLength(t) == AnyOf(t, action_verbs)

_has_clear_instruction(t) ==
    IF Len(t) = 0 \/ Len(t) < 5 THEN FALSE ELSE AnyOf(t, action_verbs)

\* the intents the keyword loop of detect visits, in order
ScannedIntents ==
    LET keys == [n \in 1..Len(detector.INTENT_KEYWORDS) |-> detector.INTENT_KEYWORDS[n].key]
    IN  SelectSeq(keys, LAMBDA i : i # "youtube_transcript")

\* the for loop of detect: first scanned intent with a keyword in the text
KeywordScan(text_lower) ==
    LET hits == SelectSeq(ScannedIntents, LAMBDA i : _contains_keywords(text_lower, i))
    IN  IF Len(hits) > 0 THEN hits[1] ELSE None

\* mutant of NormalizeText: the guard against a missing text is left out
NormalizeText_noGuard(txt) == txt

\* if not text: text = ""
NormalizeText(txt) == IF txt = None \/ txt = "" THEN "" ELSE txt

\* mutant of CodeRule: either test is enough
CodeRule_either(t, text_lower) ==
    _contains_code(t) \/ _contains_explanation_request(text_lower)

\* the two nested ifs of the code-pattern branch
CodeRule(t, text_lower) ==
    _contains_code(t) /\ _contains_explanation_request(text_lower)

\* the rules of detect after text_lower is computed
Decide(t, text_lower, hf) ==
    LET scanned == KeywordScan(text_lower)
    IN  IF _contains_keywords(text_lower, "youtube_transcript")
          THEN "youtube_transcript"
        ELSE IF CodeRule(t, text_lower)
          THEN "code_explanation"
        ELSE IF scanned # None
          THEN scanned
        ELSE IF hf /\ ~_has_clear_instruction(text_lower)
          THEN "needs_clarification"
        ELSE "conversational"

\* mutant of detect: the code-pattern branch is tried before the YouTube keywords
detect_codeFirst(txt, hf) ==
    LET t          == NormalizeText(txt)
        text_lower == Strip(Lower(t))
    IN  IF CodeRule(t, text_lower) THEN "code_explanation"
        ELSE Decide(t, text_lower, hf)

\* mutant of detect: the keyword loop runs before the code-pattern branch
detect_scanFirst(txt, hf) ==
    LET t          == NormalizeText(txt)
        text_lower == Strip(Lower(t))
    IN  IF /\ ~_contains_keywords(text_lower, "youtube_transcript")
           /\ KeywordScan(text_lower) # None
        THEN KeywordScan(text_lower)
        ELSE Decide(t, text_lower, hf)

\* None.lower() raises AttributeError
detect(txt, hf) ==
    LET t == NormalizeText(txt)
    IN  IF t = None THEN "AttributeError"
        ELSE Decide(t, Strip(Lower(t)), hf)

Count(t, words) == Cardinality({ n \in 1..Len(words) : Contains(t, words[n]) })

\* mutant of ConfidenceOf: two matches are not yet enough for 0.95
ConfidenceOf_off(keyword_matches) ==
    IF keyword_matches > 2 THEN 95
    ELSE IF keyword_matches >= 1 THEN 75
    ELSE 50

\* mutant of DetectorAfter: the keyword loop consumes the first table entry
DetectorAfter_consume(det) ==
    [det EXCEPT !.INTENT_KEYWORDS = Tail(det.INTENT_KEYWORDS)]

\* detect and get_confidence assign nothing of self and only read the tables
DetectorAfter(det) == det

\* confidences are kept as hundredths: 0.95 is 95
ConfidenceOf(keyword_matches) ==
    IF keyword_matches >= 2 THEN 95
    ELSE IF keyword_matches = 1 THEN 75
    ELSE 50

get_confidence(txt, hf) ==
    LET i == detect(txt, hf)
    IN  IF i = "AttributeError" THEN "AttributeError"
        ELSE IF i = "needs_clarification" THEN 0
        ELSE IF txt = None THEN "AttributeError"
        ELSE ConfidenceOf(Count(Lower(txt), KeywordsOf(detector, i)))

(***************************************************************************)
(* TaskExecutor                                                            *)
(***************************************************************************)
MaxFailed == 1

TaskTypes == Intents \cup {"translate"}

Queries == {"", "Summarize it", "what Tone", "Summarize the tone"}

RECURSIVE Repeat(_, _)
Repeat(str, n) == IF n = 0 THEN "" ELSE str \o Repeat(str, n - 1)

\* what process_request appends to the text, and a content longer than the
\* 200 characters the clarification prompt keeps
Augmentations ==
    { "",
      "\n\n[Extracted Content]:\nmeeting notes",
      "\n\n[YouTube Transcript]:\nhello world",
      "\n" \o Repeat("0123456789", 21) }

\* what the provider can do with one messages.create call, and with the
\* response.content[0].text that follows it
Outcomes ==
    { [kind |-> "ok", text |-> "What would you like me to do?", class |-> ""],
      [kind |-> "raise", text |-> "Connection error.", class |-> "APIConnectionError"],
      [kind |-> "empty", text |-> "", class |-> ""] }

\* __init__
NewExecutor == [client |-> "Anthropic", model |-> "claude-sonnet-4-20250514"]

\* content[:n]
Prefix(str, n) == IF Len(str) <= n THEN str ELSE SubSeq(str, 1, n)

\* The prompts keep the first line, the format markers and the embedding of
\* content and query of the f-strings; the fixed instructions in between are
\* shortened to "..."
SummaryPrompt(c, q) ==
    "Provide a comprehensive summary in this EXACT format:\n\n"
    \o "**One-line summary:** ...\n\n**Key Points:**\n...\n\n"
    \o "**Detailed Summary:**\n...\n\nContent to summarize:\n" \o c \o "\n"

SentimentPrompt(c, q) ==
    "Analyze the sentiment of the following content and return in this EXACT format:\n\n"
    \o "**Sentiment:** ...\n**Confidence:** ...\n**Justification:** ...\n\n"
    \o "Content to analyze:\n" \o c \o "\n"

CodePrompt(c, q) ==
    "Analyze this code and provide a comprehensive explanation in this format:\n\n"
    \o "**Purpose:**\n...\n\n**Logic Explanation:**\n...\n\n**Bugs/Issues:**\n...\n\n"
    \o "**Complexity Analysis:**\n...\n\nCode to analyze:\n" \o c \o "\n"

ActionsPrompt(c, q) ==
    "Extract all action items, tasks, and to-dos from the following content.\n\n"
    \o "Format your response as:\n\n**Action Items:**\n...\n\n"
    \o "Content to analyze:\n" \o c \o "\n"

ClarificationPrompt(c, q) ==
    "The user has provided content but hasn't clearly specified what they want to do with it.\n\n"
    \o "Ask them a short, clear clarifying question. ...\n\n"
    \o "User's query: " \o q \o "\nContent provided: " \o Prefix(c, 200) \o "...\n"

\* mutant of ConversationalPrompt: the context is always embedded
ConversationalPrompt_always(c, q) ==
    "Provide a helpful, friendly response to the user's question or comment.\n\n"
    \o "Be concise but informative. ...\n\n"
    \o "User's query: " \o q \o "\n"
    \o "Context: " \o c \o "\n"

ConversationalPrompt(c, q) ==
    "Provide a helpful, friendly response to the user's question or comment.\n\n"
    \o "Be concise but informative. ...\n\n"
    \o "User's query: " \o q \o "\n"
    \o (IF c # q THEN "Context: " \o c ELSE "") \o "\n"

YoutubeFallbackPrompt(c, q) ==
    "The user provided a YouTube URL but the transcript could not be fetched automatically.\n\n"
    \o "Explain this limitation politely and suggest:\n...\n\n"
    \o "User's query: " \o q \o "\n"

\* an exception raised inside a handler
Raise(class, msg, calls) ==
    [kind |-> "raise", class |-> class, msg |-> msg, calls |-> calls]

Return(value, calls) == [kind |-> "return", value |-> value, calls |-> calls]

\* mutant of CallProvider: a call that raised is made a second time
CallProvider_retry(exec, prompt, max_tokens, label, env) ==
    LET request == [model |-> exec.model, max_tokens |-> max_tokens, prompt |-> prompt]
    IN  IF exec.client = None
          THEN Raise("AttributeError", "'NoneType' object has no attribute 'messages'", << >>)
        ELSE IF env.kind = "raise"
          THEN Raise(env.class, env.text, <<request, request>>)
        ELSE IF env.kind = "empty"
          THEN Raise("IndexError", "list index out of range", <<request>>)
        ELSE Return([task |-> label, result |-> env.text], <<request>>)

\* self.client.messages.create(...) followed by response.content[0].text, and
\* the dict the handler returns
CallProvider(exec, prompt, max_tokens, label, env) ==
    LET request == [model |-> exec.model, max_tokens |-> max_tokens, prompt |-> prompt]
    IN  IF exec.client = None
          THEN Raise("AttributeError", "'NoneType' object has no attribute 'messages'", << >>)
        ELSE IF env.kind = "raise"
          THEN Raise(env.class, env.text, <<request>>)
        ELSE IF env.kind = "empty"
          THEN Raise("IndexError", "list index out of range", <<request>>)
        ELSE Return([task |-> label, result |-> env.text], <<request>>)

_handle_summary(exec, c, q, env) ==
    CallProvider(exec, SummaryPrompt(c, q), 1500, "summarization", env)

\* mutant of _handle_sentiment: the ceiling of the summary handler is kept
_handle_sentiment_1500(exec, c, q, env) ==
    CallProvider(exec, SentimentPrompt(c, q), 1500, "sentiment_analysis", env)

_handle_sentiment(exec, c, q, env) ==
    CallProvider(exec, SentimentPrompt(c, q), 500, "sentiment_analysis", env)

_handle_code(exec, c, q, env) ==
    CallProvider(exec, CodePrompt(c, q), 2000, "code_explanation", env)

_handle_actions(exec, c, q, env) ==
    CallProvider(exec, ActionsPrompt(c, q), 1000, "action_items", env)

_handle_clarification(exec, c, q, env) ==
    CallProvider(exec, ClarificationPrompt(c, q), 300, "clarification", env)

_handle_conversational(exec, c, q, env) ==
    CallProvider(exec, ConversationalPrompt(c, q), 1000, "conversational", env)

\* mutant of _handle_youtube: the sentiment words are tested before the
\* summary words
_handle_youtube_sentimentFirst(exec, c, q, env) ==
    IF Contains(c, "[YouTube Transcript]:")
    THEN IF AnyOf(Lower(q), <<"sentiment", "tone">>)
           THEN _handle_sentiment(exec, c, q, env)
         ELSE _handle_summary(exec, c, q, env)
    ELSE CallProvider(exec, YoutubeFallbackPrompt(c, q), 500, "youtube_transcript", env)

\* mutant of _handle_youtube: the query words are tested before the marker
_handle_youtube_queryFirst(exec, c, q, env) ==
    IF AnyOf(Lower(q), <<"summarize", "summary", "tldr">>)
      THEN _handle_summary(exec, c, q, env)
    ELSE IF Contains(c, "[YouTube Transcript]:")
      THEN IF AnyOf(Lower(q), <<"sentiment", "tone">>)
             THEN _handle_sentiment(exec, c, q, env)
           ELSE _handle_summary(exec, c, q, env)
    ELSE CallProvider(exec, YoutubeFallbackPrompt(c, q), 500, "youtube_transcript", env)

_handle_youtube(exec, c, q, env) ==
    IF Contains(c, "[YouTube Transcript]:")
    THEN IF AnyOf(Lower(q), <<"summarize", "summary", "tldr">>)
           THEN _handle_summary(exec, c, q, env)
         ELSE IF AnyOf(Lower(q), <<"sentiment", "tone">>)
           THEN _handle_sentiment(exec, c, q, env)
         ELSE _handle_summary(exec, c, q, env)
    ELSE CallProvider(exec, YoutubeFallbackPrompt(c, q), 500, "youtube_transcript", env)

\* mutant of RunHandler: handlers[task_type], without a default
RunHandler_noDefault(exec, tt, c, q, env) ==
    CASE tt = "summarization"       -> _handle_summary(exec, c, q, env)
      [] tt = "sentiment_analysis"  -> _handle_sentiment(exec, c, q, env)
      [] tt = "code_explanation"    -> _handle_code(exec, c, q, env)
      [] tt = "action_items"        -> _handle_actions(exec, c, q, env)
      [] tt = "needs_clarification" -> _handle_clarification(exec, c, q, env)
      [] tt = "conversational"      -> _handle_conversational(exec, c, q, env)
      [] tt = "youtube_transcript"  -> _handle_youtube(exec, c, q, env)
      [] OTHER                      -> Raise("KeyError", tt, << >>)

\* handlers.get(task_type, self._handle_conversational) applied to the arguments
RunHandler(exec, tt, c, q, env) ==
    CASE tt = "summarization"       -> _handle_summary(exec, c, q, env)
      [] tt = "sentiment_analysis"  -> _handle_sentiment(exec, c, q, env)
      [] tt = "code_explanation"    -> _handle_code(exec, c, q, env)
      [] tt = "action_items"        -> _handle_actions(exec, c, q, env)
      [] tt = "needs_clarification" -> _handle_clarification(exec, c, q, env)
      [] tt = "conversational"      -> _handle_conversational(exec, c, q, env)
      [] tt = "youtube_transcript"  -> _handle_youtube(exec, c, q, env)
      [] OTHER                      -> _handle_conversational(exec, c, q, env)

\* mutant of Caught: only the provider's own errors are caught
Caught_providerOnly(class) == class \in {"APIConnectionError", "AuthenticationError"}

\* except Exception: every class a handler can raise derives from Exception
Caught(class) ==
    class \in {"APIConnectionError", "AuthenticationError", "IndexError",
               "AttributeError", "TypeError"}

\* mutant of ExecutorAfter: a failed dispatch drops the client
ExecutorAfter_dropClient(exec, r) ==
    IF r.kind = "raise" THEN [exec EXCEPT !.client = None] ELSE exec

\* execute and the handlers assign no attribute of self
ExecutorAfter(exec, r) == exec

\* the try / except of execute
ExecuteResult(tt, r) ==
    IF r.kind = "return" THEN r.value
    ELSE IF Caught(r.class)
      THEN [task |-> tt, result |-> "Error executing task: " \o r.msg, error |-> TRUE]
    ELSE [propagated |-> r.class]

Execute(tt, c, q, env) ==
    LET r == RunHandler(executor, tt, c, q, env)
    IN  /\ r.kind = "raise" => (tt \in failed \/ Cardinality(failed) < MaxFailed)
        /\ op' = "execute"
        /\ task_type' = tt
        /\ content' = c
        /\ original_query' = q
        /\ outcome' = env
        /\ sent' = r.calls
        /\ result' = ExecuteResult(tt, r)
        /\ executor' = ExecutorAfter(executor, r)
        /\ failed' = IF r.kind = "raise" THEN failed \cup {tt} ELSE failed
        /\ UNCHANGED detVars
        /\ UNCHANGED pipeVars

ExecIdle ==
    /\ executor = NewExecutor
    /\ task_type = None
    /\ content = None
    /\ original_query = None
    /\ outcome = None
    /\ sent = << >>
    /\ result = None
    /\ failed = {}

DetIdle ==
    /\ detector = NewDetector
    /\ text = None
    /\ has_file = FALSE
    /\ intent = None
    /\ confidence = None

ExecInit == op = "init" /\ DetIdle /\ ExecIdle /\ PipeIdle

ExecNext ==
    \E tt \in TaskTypes, q \in Queries, a \in Augmentations, env \in Outcomes :
        Execute(tt, q \o a, q, env)

ExecSpec == ExecInit /\ [][ExecNext]_vars

(***************************************************************************)
(* Detector specification: one call of detect or get_confidence on each    *)
(* input                                                                   *)
(***************************************************************************)
DetInit ==
    /\ detector = NewDetector
    /\ text \in Texts \cup {None}
    /\ has_file \in BOOLEAN
    /\ intent = None
    /\ confidence = None
    /\ op = "init"
    /\ ExecIdle
    /\ PipeIdle

CallDetect ==
    /\ op = "init"
    /\ intent' = detect(text, has_file)
    /\ op' = "detect"
    /\ detector' = DetectorAfter(detector)
    /\ UNCHANGED <<text, has_file, confidence>>
    /\ UNCHANGED execVars
    /\ UNCHANGED pipeVars

CallGetConfidence ==
    /\ op = "init"
    /\ intent' = detect(text, has_file)
    /\ confidence' = get_confidence(text, has_file)
    /\ op' = "get_confidence"
    /\ detector' = DetectorAfter(detector)
    /\ UNCHANGED <<text, has_file>>
    /\ UNCHANGED execVars
    /\ UNCHANGED pipeVars

DetNext == CallDetect \/ CallGetConfidence

DetSpec == DetInit /\ [][DetNext]_vars

(***************************************************************************)
(* YouTubeService                                                          *)
(***************************************************************************)
URL_PATTERNS ==
    << << Alt({"", "http://", "https://"}), Alt({"", "www."}),
          Lit("youtube.com/watch?v="), Rep("id", 11) >>,
       << Alt({"", "http://", "https://"}), Alt({"", "www."}),
          Lit("youtu.be/"), Rep("id", 11) >>,
       << Alt({"", "http://", "https://"}), Alt({"", "www."}),
          Lit("youtube.com/embed/"), Rep("id", 11) >> >>

\* match.group(1) of pattern.search(text): the 11 characters that end the
\* leftmost match
Group1(pat, t) ==
    LET starts == { i \in 0..Len(t) : RunRe(t, pat, 1, {i}) # {} }
        first  == CHOOSE i \in starts : \A j \in starts : i <= j
        end    == CHOOSE e \in RunRe(t, pat, 1, {first}) : TRUE
    IN  SubSeq(t, end - 10, end)

\* extract_video_id: group 1 of the first pattern that matches
extract_video_id(url) ==
    LET hits == SelectSeq(URL_PATTERNS, LAMBDA pat : Search(pat, url))
    IN  IF Len(hits) > 0 THEN Group1(hits[1], url) ELSE None

extract_url(t) ==
    IF t = "" THEN None
    ELSE LET hits == SelectSeq(URL_PATTERNS, LAMBDA pat : Search(pat, t))
         IN  IF Len(hits) > 0
             THEN "https://www.youtube.com/watch?v=" \o Group1(hits[1], t)
             ELSE None

\* get_transcript: fetched is what YouTubeTranscriptApi gives for the video,
\* None when the API is missing, disabled, finds nothing or raises
get_transcript(url, fetched) ==
    IF extract_video_id(url) = None THEN None ELSE fetched

(***************************************************************************)
(* process_request                                                         *)
(***************************************************************************)
NumRequests == 2

MAX_FILE_SIZE == 10485760

ALLOWED_MIME_TYPES ==
    { "image/jpeg", "image/jpg", "image/png", "image/bmp", "image/gif",
      "application/pdf",
      "audio/mpeg", "audio/mp3", "audio/wav", "audio/x-wav",
      "audio/mp4", "audio/x-m4a", "audio/ogg" }

\* the form field text
PipeTexts ==
    { "", "hello", "Summarize it", "youtube video",
      "what Tone https://youtu.be/dQw4w9WgXcQ",
      "youtube says [YouTube Transcript]: x" }

\* readable: shutil.copyfileobj can copy the upload into the temporary file
Upload(content_type, size, info) ==
    [content_type |-> content_type, size |-> size, info |-> info, readable |-> TRUE]

\* an upload whose copy into the temporary file raises (disk full, broken stream)
Unreadable(upload) == [upload EXCEPT !.readable = FALSE]

\* file: Optional[UploadFile] = File(None)
NoFile == Upload(None, 0, [text |-> ""])

\* the uploads, each with the dict its processor returns
PipeFiles ==
    { NoFile,
      Upload("application/pdf", 1024, [text |-> "meeting notes"]),
      Upload("application/pdf", 1024, [text |-> ""]),
      Upload("image/png", 1024, [text |-> "[YouTube Transcript]: pasted"]),
      Upload("audio/mpeg", 1024,
             [text |-> "[Audio transcription requires Whisper]",
              error |-> "Whisper not available"]),
      Upload("text/plain", 1024, [text |-> "plain"]),
      Upload("application/pdf", MAX_FILE_SIZE + 1, [text |-> "big"]),
      Upload("text/plain", MAX_FILE_SIZE + 1, [text |-> "big and plain"]),
      Unreadable(Upload("application/pdf", 1024, [text |-> "meeting notes"])) }

\* what the transcript API gives
Fetches == {None, "", "hello world"}

HTTPException(status, detail) == [status_code |-> status, detail |-> detail]

\* no exception raised, no response sent yet
NoException == [status_code |-> 0, detail |-> ""]

NewRequest(t, file, fetched) ==
    [pc |-> "pending", text |-> t, file |-> file, fetched |-> fetched,
     temp_file |-> None, youtube_url |-> None, transcript |-> None,
     content |-> None, intent |-> None, original_query |-> None,
     outcome |-> None, sent |-> << >>, result |-> None, response |-> NoException]

\* process_image / process_pdf / process_audio by content type
Processor(content_type) ==
    IF StartsWith(content_type, "image/") THEN "process_image"
    ELSE IF content_type = "application/pdf" THEN "process_pdf"
    ELSE IF StartsWith(content_type, "audio/") THEN "process_audio"
    ELSE None

\* content after the file section of process_request
ContentWithFile(t, file) ==
    IF file # NoFile /\ "text" \in DOMAIN file.info /\ file.info.text # ""
    THEN t \o "\n\n[Extracted Content]:\n" \o file.info.text
    ELSE t

\* content after the YouTube section of process_request
ContentWithTranscript(t, c, url, transcript) ==
    IF url # None /\ transcript # None /\ transcript # ""
    THEN t \o "\n\n[YouTube Transcript]:\n" \o transcript
    ELSE c

\* mutant of Rejection: validate_file_type is called before validate_file_size
Rejection_typeFirst(req) ==
    LET file == req.file
    IN  IF Strip(req.text) = "" /\ file = NoFile
          THEN HTTPException(400, "Either text or file must be provided")
        ELSE IF file = NoFile THEN NoException
        ELSE IF file.content_type \notin ALLOWED_MIME_TYPES
          THEN HTTPException(415, "File type '" \o file.content_type
                   \o "' is not supported. Allowed types: images, PDFs, and audio files.")
        ELSE IF file.size > MAX_FILE_SIZE
          THEN HTTPException(413, "File size exceeds maximum allowed size (10MB)")
        ELSE IF ~file.readable
          THEN HTTPException(500, "Internal server error: [Errno 28] No space left on device")
        ELSE IF Processor(file.content_type) = None
          THEN HTTPException(400, "Unsupported file type: " \o file.content_type)
        ELSE IF "error" \in DOMAIN file.info
          THEN HTTPException(500, "File processing error: " \o file.info.error)
        ELSE NoException

\* the checks of process_request that end the request before the dispatch
\* (the detail of the 413 leaves out the formatted size); an exception of
\* copyfileobj reaches 'except Exception' and becomes a 500
Rejection(req) ==
    LET file == req.file
    IN  IF Strip(req.text) = "" /\ file = NoFile
          THEN HTTPException(400, "Either text or file must be provided")
        ELSE IF file = NoFile THEN NoException
        ELSE IF file.size > MAX_FILE_SIZE
          THEN HTTPException(413, "File size exceeds maximum allowed size (10MB)")
        ELSE IF file.content_type \notin ALLOWED_MIME_TYPES
          THEN HTTPException(415, "File type '" \o file.content_type
                   \o "' is not supported. Allowed types: images, PDFs, and audio files.")
        ELSE IF ~file.readable
          THEN HTTPException(500, "Internal server error: [Errno 28] No space left on device")
        ELSE IF Processor(file.content_type) = None
          THEN HTTPException(400, "Unsupported file type: " \o file.content_type)
        ELSE IF "error" \in DOMAIN file.info
          THEN HTTPException(500, "File processing error: " \o file.info.error)
        ELSE NoException

\* NamedTemporaryFile(delete=False) creates the file once both validations
\* passed
TempCreated(req) ==
    /\ req.file # NoFile
    /\ req.file.size <= MAX_FILE_SIZE
    /\ req.file.content_type \in ALLOWED_MIME_TYPES

\* temp_file_path is assigned after copyfileobj returned
TempFilePath(req) ==
    IF TempCreated(req) /\ req.file.readable THEN "tmp.name" ELSE None

\* the finally block: the file is removed when temp_file_path names it
TempFileAtExit(req) ==
    IF ~TempCreated(req) THEN None
    ELSE IF TempFilePath(req) # None THEN "removed"
    ELSE "exists"

\* mutant of DetectArgs: the assembled content is classified
DetectArgs_content(t, c, file, url) ==
    [text |-> c, has_file |-> (file # NoFile \/ url # None)]

\* the arguments of intent_detector.detect
DetectArgs(t, c, file, url) ==
    [text |-> t, has_file |-> (file # NoFile \/ url # None)]

\* mutant of BuildResponse: an error result makes the request unsuccessful
BuildResponse_failOnError(req, res) ==
    [status_code |-> 200,
     success |-> ("error" \notin DOMAIN res),
     intent |-> req.intent,
     extracted_content |->
         IF req.file # NoFile /\ "text" \in DOMAIN req.file.info /\ req.file.info.text # ""
         THEN Prefix(req.file.info.text, 500) ELSE "",
     result |-> res.result,
     youtube |-> (req.youtube_url # None /\ req.transcript # None /\ req.transcript # "")]

\* process_request up to the provider call inside task_executor.execute; the
\* coroutine never suspends, so it keeps the event loop from its first line
\* until it returns or raises
Begin(r) ==
    LET req        == reqs[r]
        rejection  == Rejection(req)
        url        == extract_url(req.text)
        transcript == IF url # None THEN get_transcript(url, req.fetched) ELSE None
        c          == ContentWithTranscript(req.text, ContentWithFile(req.text, req.file),
                                            url, transcript)
        args       == DetectArgs(req.text, c, req.file, url)
    IN  /\ running = 0
        /\ req.pc = "pending"
        /\ op' = "process_request"
        /\ IF rejection # NoException
           THEN /\ reqs' = [reqs EXCEPT ![r].pc = "done",
                                        ![r].response = rejection,
                                        ![r].temp_file = TempFileAtExit(req)]
                /\ UNCHANGED <<running, detector>>
           ELSE /\ reqs' = [reqs EXCEPT ![r].pc = "calling",
                                        ![r].temp_file =
                                            IF TempCreated(req) THEN "exists" ELSE None,
                                        ![r].youtube_url = url,
                                        ![r].transcript = transcript,
                                        ![r].content = c,
                                        ![r].intent = detect(args.text, args.has_file),
                                        ![r].original_query = req.text]
                /\ running' = r
                /\ detector' = DetectorAfter(detector)
        /\ UNCHANGED <<text, has_file, intent, confidence>>
        /\ UNCHANGED execVars

\* extracted_content of the response
ExtractedContent(file) ==
    IF file # NoFile /\ "text" \in DOMAIN file.info /\ file.info.text # ""
    THEN Prefix(file.info.text, 500) ELSE ""

\* the response dict of process_request
BuildResponse(req, res) ==
    [status_code |-> 200,
     success |-> TRUE,
     intent |-> req.intent,
     extracted_content |-> ExtractedContent(req.file),
     result |-> res.result,
     youtube |-> (req.youtube_url # None /\ req.transcript # None /\ req.transcript # "")]

\* the provider answers the call of request r; execute returns, the response
\* is built (an exception that escaped execute becomes a 500) and the finally
\* block removes the temporary file
ProviderReturns(r, env) ==
    LET req == reqs[r]
        h   == RunHandler(executor, req.intent, req.content, req.original_query, env)
        res == ExecuteResult(req.intent, h)
    IN  /\ running = r
        /\ req.pc = "calling"
        /\ op' = "process_request"
        /\ reqs' = [reqs EXCEPT
               ![r].pc = "done",
               ![r].sent = h.calls,
               ![r].result = res,
               ![r].outcome = env,
               ![r].temp_file = TempFileAtExit(req),
               ![r].response =
                   IF "propagated" \in DOMAIN res
                   THEN HTTPException(500, "Internal server error: " \o h.msg)
                   ELSE BuildResponse(req, res)]
        /\ running' = 0
        /\ executor' = ExecutorAfter(executor, h)
        /\ UNCHANGED <<task_type, content, original_query, outcome, sent, result, failed>>
        /\ UNCHANGED detVars

PipeNext ==
    \E r \in DOMAIN reqs :
        \/ Begin(r)
        \/ \E env \in Outcomes : ProviderReturns(r, env)

\* one request with every combination of text, upload and transcript
PipeInit ==
    /\ op = "init" /\ DetIdle /\ ExecIdle
    /\ running = 0
    /\ reqs \in [1..1 -> { NewRequest(t, file, fetched) :
                             t \in PipeTexts, file \in PipeFiles, fetched \in Fetches }]

PipeSpec == PipeInit /\ [][PipeNext]_vars

\* several requests arriving at the one event loop of the process
LoopTexts == {"", "hello", "Summarize it"}

LoopInit ==
    /\ op = "init" /\ DetIdle /\ ExecIdle
    /\ running = 0
    /\ reqs \in [1..NumRequests -> { NewRequest(t, NoFile, None) : t \in LoopTexts }]

LoopSpec == LoopInit /\ [][PipeNext]_vars

\* two requests that may agree on the text and differ in what the file's
\* extraction and the transcript fetch produce
PairTexts == {"hello", "see https://youtu.be/dQw4w9WgXcQ"}

PairFiles ==
    { NoFile,
      Upload("application/pdf", 1024, [text |-> "meeting notes"]),
      Upload("application/pdf", 1024, [text |-> "summarize the debug tasks"]) }

PairFetches == {None, "the tone of def f( explained"}

PairInit ==
    /\ op = "init" /\ DetIdle /\ ExecIdle
    /\ running = 0
    /\ reqs \in [1..2 -> { NewRequest(t, file, fetched) :
                             t \in PairTexts, file \in PairFiles, fetched \in PairFetches }]

PairSpec == PairInit /\ [][PipeNext]_vars

\* one request whose text is put together from pieces of a URL
UrlTexts ==
    { pre \o scheme \o www \o host \o id :
        pre    \in {"", "Summarize ", "def f( Explain "},
        scheme \in {"", "https://"},
        www    \in {"", "www."},
        host   \in {"youtube.com/watch?v=", "youtu.be/", "youtube.com/embed/",
                    "YouTube.com/watch?v=", "vimeo.com/"},
        id     \in {"dQw4w9WgXcQ", "short"} }

UrlInit ==
    /\ op = "init" /\ DetIdle /\ ExecIdle
    /\ running = 0
    /\ reqs \in [1..1 -> { NewRequest(t, NoFile, fetched) :
                             t \in UrlTexts, fetched \in {None, "hello world"} }]

UrlSpec == UrlInit /\ [][PipeNext]_vars

(***************************************************************************)
(* Properties of detect and get_confidence                                 *)
(***************************************************************************)
Detected == op = "detect" /\ text # None

HasYoutubeKeyword(t) ==
    \E k \in {"youtube.com", "youtu.be", "youtube", "video transcript"} :
        Contains(Lower(t), k)

HasExplanationPhrase(t) ==
    \E k \in {"explain", "what does", "how does", "what is",
              "analyze", "review", "understand", "clarify"} :
        Contains(Lower(t), k)

HasKeywordOf(t, i) == AnyOf(Lower(t), INTENT_KEYWORDS(i))

\* C1: a text whose lowercased form contains a YouTube keyword is classified
\* youtube_transcript, whatever has_file is and whatever else the text matches.
C1_YoutubeFirst ==
    (Detected /\ HasYoutubeKeyword(text)) => intent = "youtube_transcript"

C1_Witness ==
    /\ Detected /\ has_file
    /\ HasYoutubeKeyword(text)
    /\ _contains_code(text) /\ HasExplanationPhrase(text)
    /\ intent = "youtube_transcript"

\* C2: without a YouTube keyword, a text with a code-structure pattern and an
\* explanation-request phrase is classified code_explanation, also when it
\* holds summarization, sentiment or action-item keywords.
C2_CodeExplanation ==
    (Detected /\ ~HasYoutubeKeyword(text)
        /\ _contains_code(text) /\ HasExplanationPhrase(text))
    => intent = "code_explanation"

C2_Witness ==
    /\ Detected /\ ~HasYoutubeKeyword(text)
    /\ _contains_code(text) /\ HasExplanationPhrase(text)
    /\ HasKeywordOf(text, "summarization")
    /\ intent = "code_explanation"

\* C3 as stated: code_explanation is returned only for texts that match a
\* code-structure pattern and contain an explanation-request phrase.
C3_OnlyByCodePattern ==
    (Detected /\ intent = "code_explanation")
    => (_contains_code(text) /\ HasExplanationPhrase(text))

\* C3 amended: code_explanation is returned only for texts that match a
\* code-structure pattern and contain an explanation-request phrase, or that
\* contain a keyword of the code_explanation keyword set (the keyword loop
\* consults that set too).
C3_OnlyByCodePatternOrKeyword ==
    (Detected /\ intent = "code_explanation")
    => \/ (_contains_code(text) /\ HasExplanationPhrase(text))
       \/ \E k \in {"explain code", "what does this code", "code explanation",
                    "how does this work", "analyze code", "review code",
                    "debug", "find bugs", "what is this function"} :
              Contains(Lower(text), k)

C3_Witness ==
    /\ Detected /\ intent = "code_explanation"
    /\ ~_contains_code(text)
    /\ Contains(Lower(text), "debug")

\* first intent of the sequence order with a keyword in the text, None if none
FirstMatching(t, order) ==
    LET hits == SelectSeq(order, LAMBDA i : HasKeywordOf(t, i))
    IN  IF Len(hits) > 0 THEN hits[1] ELSE None

NoEarlierRule(t) ==
    ~HasYoutubeKeyword(t) /\ ~(_contains_code(t) /\ HasExplanationPhrase(t))

\* C4 as stated: when neither earlier rule fires, the result is the first of
\* summarization, sentiment_analysis, action_items with a keyword in the text.
C4_FirstOfThree ==
    LET first == FirstMatching(text,
                     <<"summarization", "sentiment_analysis", "action_items">>)
    IN  (Detected /\ NoEarlierRule(text) /\ first # None) => intent = first

\* C4 amended: when neither earlier rule fires, the result is the first of
\* summarization, sentiment_analysis, code_explanation, action_items (in that
\* order) with a keyword in the lowercased text.
C4_FirstOfFour ==
    LET first == FirstMatching(text,
                     <<"summarization", "sentiment_analysis",
                       "code_explanation", "action_items">>)
    IN  (Detected /\ NoEarlierRule(text) /\ first # None) => intent = first

C4_Witness ==
    /\ Detected /\ NoEarlierRule(text)
    /\ HasKeywordOf(text, "summarization")
    /\ HasKeywordOf(text, "sentiment_analysis")
    /\ intent = "summarization"

NoKeywordAtAll(t) ==
    /\ NoEarlierRule(t)
    /\ \A i \in {"summarization", "sentiment_analysis",
                 "code_explanation", "action_items"} : ~HasKeywordOf(t, i)

HasActionVerb(t) ==
    \E k \in {"summarize", "explain", "analyze", "extract", "find", "list",
              "show", "tell", "give", "identify", "detect", "calculate",
              "convert"} :
        Contains(t, k)

\* C5: when no rule or keyword matches, the result is needs_clarification
\* exactly when has_file holds and the lowercased, stripped text is shorter
\* than 5 characters or has no action verb, and conversational otherwise; a
\* missing text counts as empty, and needs_clarification needs has_file.
C5_ClarificationOrConversational ==
    LET t  == IF text = None THEN "" ELSE text
        tl == Strip(Lower(t))
    IN  /\ (op = "detect" /\ NoKeywordAtAll(t))
           => intent = IF has_file /\ (Len(tl) < 5 \/ ~HasActionVerb(tl))
                       THEN "needs_clarification"
                       ELSE "conversational"
        /\ (op = "detect" /\ intent = "needs_clarification") => has_file

C5_Witness ==
    /\ Detected /\ has_file
    /\ Len(Strip(Lower(text))) < 5 /\ HasActionVerb(Lower(text))
    /\ intent = "needs_clarification"

\* C6: detect returns one of the seven intents for every text, the empty and
\* the missing one included, and either has_file.
C6_Total == op = "detect" => intent \in Intents

C6_Witness == op = "detect" /\ text = None /\ has_file /\ intent \in Intents

\* C7: get_confidence is 0.0 for needs_clarification, else 0.95 / 0.75 / 0.5
\* for at least two / exactly one / no keyword of the detected intent's own
\* set in the lowercased text.
C7_Confidence ==
    (op = "get_confidence" /\ text # None)
    => LET n == Cardinality({ k \in 1..Len(INTENT_KEYWORDS(intent)) :
                                Contains(Lower(text), INTENT_KEYWORDS(intent)[k]) })
       IN  /\ confidence \in {0, 50, 75, 95}
           /\ confidence = IF intent = "needs_clarification" THEN 0
                           ELSE IF n >= 2 THEN 95
                           ELSE IF n = 1 THEN 75
                           ELSE 50

C7_Witness ==
    /\ op = "get_confidence" /\ text # None
    /\ intent = "action_items"
    /\ Contains(Lower(text), "task") /\ Contains(Lower(text), "tasks")
    /\ confidence = 95

(***************************************************************************)
(* Properties of execute                                                   *)
(***************************************************************************)
Executed == op = "execute"

HandlerRaised == outcome.kind # "ok"

IsErrorResult(r) ==
    /\ DOMAIN r = {"task", "result", "error"}
    /\ r.error = TRUE
    /\ Len(r.result) > Len("Error executing task: ")
    /\ SubSeq(r.result, 1, Len("Error executing task: ")) = "Error executing task: "

IsNormalResult(r) == DOMAIN r = {"task", "result"}

\* C8: execute never lets an exception of a handler escape; it returns an
\* error result 'Error executing task: ...' exactly when the handler raised,
\* for every task_type.
C8_ErrorsCaught ==
    Executed =>
        /\ IsErrorResult(result) \/ IsNormalResult(result)
        /\ IsErrorResult(result) <=> HandlerRaised

C8_Witness ==
    /\ Executed /\ outcome.kind = "empty" /\ task_type = "translate"
    /\ IsErrorResult(result)

\* C9: an execute whose provider call succeeds returns a normal result with
\* the provider's text, also for a task type whose earlier dispatch failed;
\* no dispatch changes the executor.
C9_ErrorIsolation ==
    /\ executor = NewExecutor
    /\ (Executed /\ outcome.kind = "ok")
       => (IsNormalResult(result) /\ result.result = outcome.text)

C9_Witness ==
    /\ Executed /\ outcome.kind = "ok" /\ task_type \in failed
    /\ IsNormalResult(result)

\* C10: the result of every needs_clarification dispatch carries the task
\* label 'clarification'.
C10_ClarificationLabel ==
    (Executed /\ task_type = "needs_clarification") => result.task = "clarification"

(***************************************************************************)
(* Properties of the handlers                                              *)
(***************************************************************************)
\* the template a prompt was built from, told by its first words
TemplateOf(prompt) ==
    CASE StartsWith(prompt, "Provide a comprehensive summary")       -> "summary"
      [] StartsWith(prompt, "Analyze the sentiment")                 -> "sentiment"
      [] StartsWith(prompt, "Analyze this code")                     -> "code"
      [] StartsWith(prompt, "Extract all action items")              -> "actions"
      [] StartsWith(prompt, "The user has provided content")         -> "clarification"
      [] StartsWith(prompt, "Provide a helpful, friendly response")  -> "conversational"
      [] StartsWith(prompt, "The user provided a YouTube URL")       -> "youtube_fallback"
      [] OTHER                                                       -> None

\* the template of the one provider call of this execute
UsedTemplate == IF Len(sent) = 1 THEN TemplateOf(sent[1].prompt) ELSE None

HasMarker(c) == Contains(c, "[YouTube Transcript]:")

HasWordOf(q, words) == \E w \in words : Contains(Lower(q), w)

\* C11: a task_type outside the seven intents is served by the conversational
\* handler: conversational template, max_tokens 1000, and on success the
\* label 'conversational'.
C11_UnknownToConversational ==
    (Executed /\ task_type \notin Intents)
    => /\ UsedTemplate = "conversational"
       /\ sent[1].max_tokens = 1000
       /\ outcome.kind = "ok" => (IsNormalResult(result) /\ result.task = "conversational")

C11_Witness ==
    /\ Executed /\ task_type = "translate" /\ outcome.kind = "ok"
    /\ result.task = "conversational"

\* C12 as stated: with the marker in the content, the YouTube handler uses the
\* sentiment template whenever the query has 'sentiment' or 'tone', and the
\* summary template otherwise.
C12_SentimentWheneverAsked ==
    (Executed /\ task_type = "youtube_transcript" /\ HasMarker(content))
    => UsedTemplate = IF HasWordOf(original_query, {"sentiment", "tone"})
                      THEN "sentiment" ELSE "summary"

\* C12 amended: with the marker in the content, the YouTube handler uses the
\* sentiment template when the query has 'sentiment' or 'tone' and none of
\* 'summarize', 'summary', 'tldr', and the summary template otherwise.
C12_SentimentUnlessSummaryAsked ==
    (Executed /\ task_type = "youtube_transcript" /\ HasMarker(content))
    => UsedTemplate = IF /\ HasWordOf(original_query, {"sentiment", "tone"})
                         /\ ~HasWordOf(original_query, {"summarize", "summary", "tldr"})
                      THEN "sentiment" ELSE "summary"

C12_Witness ==
    /\ Executed /\ task_type = "youtube_transcript" /\ HasMarker(content)
    /\ HasWordOf(original_query, {"sentiment", "tone"})
    /\ UsedTemplate = "sentiment"
    /\ outcome.kind = "ok" /\ result.task = "sentiment_analysis"

\* C13: without the marker in the content the YouTube handler sends the
\* explain-limitation prompt with max_tokens 500 and the label is
\* youtube_transcript, whatever the query holds; with the marker and
\* 'summarize' in the query the summary template is sent.
C13_FallbackWithoutMarker ==
    /\ (Executed /\ task_type = "youtube_transcript" /\ ~HasMarker(content))
       => /\ UsedTemplate = "youtube_fallback"
          /\ sent[1].max_tokens = 500
          /\ result.task = "youtube_transcript"
    /\ (Executed /\ task_type = "youtube_transcript" /\ HasMarker(content)
           /\ HasWordOf(original_query, {"summarize"}))
       => UsedTemplate = "summary"

C13_Witness ==
    /\ Executed /\ task_type = "youtube_transcript" /\ ~HasMarker(content)
    /\ HasWordOf(original_query, {"summarize"})
    /\ UsedTemplate = "youtube_fallback" /\ outcome.kind = "ok"

\* C15: every execute makes exactly one provider call, on the re-dispatch and
\* default paths and after a failure too.
C15_OneProviderCall == Executed => Len(sent) = 1

C15_Witness ==
    /\ Executed /\ task_type = "youtube_transcript" /\ HasMarker(content)
    /\ outcome.kind = "raise" /\ Len(sent) = 1 /\ IsErrorResult(result)

\* C19: the conversational prompt has a 'Context:' section holding the content
\* exactly when content differs from the query; otherwise it ends with the
\* query alone.
C19_ContextIffDiffers ==
    (Executed /\ UsedTemplate = "conversational")
    => /\ Contains(sent[1].prompt, "Context: " \o content) <=> content # original_query
       /\ content = original_query
          => EndsWith(sent[1].prompt, "User's query: " \o original_query \o "\n\n")

C19_Witness ==
    /\ Executed /\ task_type = "conversational"
    /\ content = original_query /\ content # ""
    /\ ~Contains(sent[1].prompt, "Context:")

CeilingOf(template) ==
    CASE template = "summary"          -> 1500
      [] template = "sentiment"        -> 500
      [] template = "code"             -> 2000
      [] template = "actions"          -> 1000
      [] template = "clarification"    -> 300
      [] template = "conversational"   -> 1000
      [] template = "youtube_fallback" -> 500
      [] OTHER                         -> 0

TemplatesFor(tt) ==
    CASE tt = "summarization"       -> {"summary"}
      [] tt = "sentiment_analysis"  -> {"sentiment"}
      [] tt = "code_explanation"    -> {"code"}
      [] tt = "action_items"        -> {"actions"}
      [] tt = "needs_clarification" -> {"clarification"}
      [] tt = "youtube_transcript"  -> {"youtube_fallback", "summary", "sentiment"}
      [] OTHER                      -> {"conversational"}

\* C20: every dispatch calls the provider with the ceiling of the template it
\* used (1500, 500, 2000, 1000, 300, 1000, and 500 for the YouTube failure
\* branch), and uses a template of its task type.
C20_TokenCeilings ==
    Executed
    => /\ UsedTemplate \in TemplatesFor(task_type)
       /\ sent[1].max_tokens = CeilingOf(UsedTemplate)

C20_Witness ==
    /\ Executed /\ task_type = "youtube_transcript"
    /\ UsedTemplate = "sentiment" /\ sent[1].max_tokens = 500

(***************************************************************************)
(* Properties of process_request                                           *)
(***************************************************************************)
\* request r went through detect and reached the dispatcher
Dispatched(r) == reqs[r].pc = "calling" \/ reqs[r].response.status_code = 200

\* request r was answered after its provider call
Served(r) == reqs[r].pc = "done" /\ reqs[r].response.status_code = 200

\* the template of the one provider call made for request r
TemplateUsedBy(r) ==
    IF Len(reqs[r].sent) = 1 THEN TemplateOf(reqs[r].sent[1].prompt) ELSE None

GotFileText(r) ==
    /\ reqs[r].file # NoFile
    /\ "text" \in DOMAIN reqs[r].file.info
    /\ reqs[r].file.info.text # ""

GotTranscript(r) == reqs[r].transcript # None /\ reqs[r].transcript # ""

\* C14: a request classified youtube_transcript for which no transcript was
\* fetched (get_transcript returned None, or no URL was extracted) is served
\* with the fallback template, whatever its text or its file's text contain.
C14_FallbackWithoutTranscript ==
    \A r \in DOMAIN reqs :
        (Served(r) /\ reqs[r].intent = "youtube_transcript"
                   /\ reqs[r].transcript = None)
        => TemplateUsedBy(r) = "youtube_fallback"

\* C18: the content passed to the dispatcher holds every section that was
\* obtained: the file's text under its label, the transcript under its label,
\* both when both were obtained, and the bare user text when neither was.
C18_EverySection ==
    \A r \in DOMAIN reqs :
        Dispatched(r)
        => /\ GotFileText(r)
                => Contains(reqs[r].content,
                            "[Extracted Content]:\n" \o reqs[r].file.info.text)
           /\ GotTranscript(r)
                => Contains(reqs[r].content,
                            "[YouTube Transcript]:\n" \o reqs[r].transcript)
           /\ (~GotFileText(r) /\ ~GotTranscript(r))
                => reqs[r].content = reqs[r].text

\* C16: while the provider call of one request is in flight, any other
\* pending request can start.
C16_NoBlocking ==
    \A a, b \in DOMAIN reqs :
        (a # b /\ reqs[a].pc = "calling" /\ reqs[b].pc = "pending")
        => ENABLED Begin(b)

\* C17: detect leaves the shared detector as it was constructed, every
\* dispatched request got the intent detect gives for its inputs, and two
\* requests with the same (text, has_file) got the same intent, however the
\* requests were ordered.
C17_NoHiddenState ==
    /\ detector = NewDetector
    /\ \A a \in DOMAIN reqs :
           Dispatched(a)
           => reqs[a].intent =
                 detect(reqs[a].text,
                        reqs[a].file # NoFile \/ reqs[a].youtube_url # None)
    /\ \A a, b \in DOMAIN reqs :
           (Dispatched(a) /\ Dispatched(b)
              /\ reqs[a].text = reqs[b].text
              /\ (reqs[a].file # NoFile \/ reqs[a].youtube_url # None)
                   = (reqs[b].file # NoFile \/ reqs[b].youtube_url # None))
           => reqs[a].intent = reqs[b].intent

C17_Witness ==
    \E a, b \in DOMAIN reqs :
        /\ a # b
        /\ Served(a) /\ reqs[b].pc = "calling"
        /\ reqs[a].text = "Summarize it" /\ reqs[b].text = "Summarize it"
        /\ reqs[a].intent = "summarization" /\ reqs[b].intent = "summarization"

\* the provider call of request r raised or returned no content
ProviderFailed(r) ==
    /\ reqs[r].pc = "done"
    /\ reqs[r].intent # None
    /\ reqs[r].outcome.kind # "ok"

\* C21: a request whose provider call failed still gets the structured
\* response: success True, the detected intent, and the readable
\* 'Error executing task: ...' message as result.
C21_FailureStillAnswered ==
    \A r \in DOMAIN reqs :
        ProviderFailed(r)
        => /\ reqs[r].response.status_code = 200
           /\ reqs[r].response.success = TRUE
           /\ reqs[r].response.intent = reqs[r].intent
           /\ reqs[r].response.intent =
                 detect(reqs[r].text,
                        reqs[r].file # NoFile \/ reqs[r].youtube_url # None)
           /\ StartsWith(reqs[r].response.result, "Error executing task: ")
           /\ reqs[r].outcome.kind = "raise"
                => reqs[r].response.result
                      = "Error executing task: " \o reqs[r].outcome.text

C21_Witness ==
    \E r \in DOMAIN reqs :
        /\ ProviderFailed(r)
        /\ reqs[r].outcome.kind = "raise"
        /\ reqs[r].file # NoFile
        /\ reqs[r].response.success = TRUE
        /\ reqs[r].response.intent = "summarization"

\* C22: a temporary file created for an upload no longer exists when the
\* request has finished, on every exit path.
C22_TempFileGone ==
    \A r \in DOMAIN reqs :
        (reqs[r].pc = "done" /\ TempCreated(reqs[r]))
        => reqs[r].temp_file = "removed"

BlankAndNoFile(r) == Strip(reqs[r].text) = "" /\ reqs[r].file = NoFile

\* C23: detect and execute run only for a request that passed the empty-input
\* check and, with a file, the size check, the type check and an extraction
\* without 'error'; a rejected request has status 400, 413, 415 or 500 and
\* neither an intent nor a provider call; an upload that fails both the size
\* and the type check is answered 413.
C23_ChecksBeforeDispatch ==
    \A r \in DOMAIN reqs :
        LET req == reqs[r]
        IN  /\ (req.intent # None \/ Len(req.sent) > 0)
               => /\ ~BlankAndNoFile(r)
                  /\ req.file # NoFile
                       => /\ req.file.size <= MAX_FILE_SIZE
                          /\ req.file.content_type \in ALLOWED_MIME_TYPES
                          /\ "error" \notin DOMAIN req.file.info
            /\ req.pc = "done"
               => /\ BlankAndNoFile(r) => req.response.status_code = 400
                  /\ (req.file # NoFile /\ req.file.size > MAX_FILE_SIZE)
                       => req.response.status_code = 413
                  /\ (req.file # NoFile /\ req.file.size <= MAX_FILE_SIZE
                        /\ req.file.content_type \notin ALLOWED_MIME_TYPES)
                       => req.response.status_code = 415
                  /\ (TempFilePath(req) # None /\ "error" \in DOMAIN req.file.info)
                       => req.response.status_code = 500
                  /\ req.response.status_code # 200
                       => (req.intent = None /\ req.sent = << >>)

C23_Witness ==
    \E r \in DOMAIN reqs :
        /\ reqs[r].pc = "done"
        /\ reqs[r].file # NoFile
        /\ reqs[r].file.size > MAX_FILE_SIZE
        /\ reqs[r].file.content_type \notin ALLOWED_MIME_TYPES
        /\ reqs[r].response.status_code = 413
        /\ reqs[r].intent = None /\ reqs[r].sent = << >>

\* C24: two requests with the same text and the same file presence get the
\* same intent whatever their files' extracted text and their transcripts
\* are, and execute receives the user's text as original_query.
C24_IntentFromTextAndPresence ==
    /\ \A a, b \in DOMAIN reqs :
           (Dispatched(a) /\ Dispatched(b)
              /\ reqs[a].text = reqs[b].text
              /\ (reqs[a].file = NoFile) = (reqs[b].file = NoFile))
           => reqs[a].intent = reqs[b].intent
    /\ \A a \in DOMAIN reqs :
           Dispatched(a) => reqs[a].original_query = reqs[a].text

C24_Witness ==
    \E a, b \in DOMAIN reqs :
        /\ Served(a) /\ Served(b)
        /\ reqs[a].text = "hello" /\ reqs[b].text = "hello"
        /\ reqs[a].file # NoFile /\ reqs[b].file # NoFile
        /\ reqs[a].file.info.text = "meeting notes"
        /\ reqs[b].file.info.text = "summarize the debug tasks"
        /\ reqs[a].content # reqs[b].content
        /\ reqs[a].intent = reqs[b].intent

\* C25: a text in which extract_url finds a URL is classified
\* youtube_transcript with either value of has_file; the URL part of has_file
\* never changes the intent of a request; a transcript is fetched only for a
\* request whose intent is youtube_transcript.
C25_UrlImpliesYoutube ==
    \A r \in DOMAIN reqs :
        /\ extract_url(reqs[r].text) # None
             => /\ detect(reqs[r].text, TRUE) = "youtube_transcript"
                /\ detect(reqs[r].text, FALSE) = "youtube_transcript"
        /\ Dispatched(r)
             => /\ reqs[r].youtube_url = extract_url(reqs[r].text)
                /\ reqs[r].intent = detect(reqs[r].text, reqs[r].file # NoFile)
        /\ (reqs[r].youtube_url # None \/ reqs[r].transcript # None)
             => reqs[r].intent = "youtube_transcript"

C25_Witness ==
    \E r \in DOMAIN reqs :
        /\ Served(r)
        /\ reqs[r].text = "def f( Explain www.youtube.com/embed/dQw4w9WgXcQ"
        /\ reqs[r].youtube_url = "https://www.youtube.com/watch?v=dQw4w9WgXcQ"
        /\ reqs[r].transcript = "hello world"
        /\ reqs[r].intent = "youtube_transcript"

====
